---- MODULE Spec2Model ----
(***************************************************************************)
(* A model of networkteam/slogutils:                                       *)
(*   - package buffering (Emitter, Handler): records are appended by       *)
(*     Handle under the Emitter's mutex and replayed by EmitTo;            *)
(*   - CLIHandler: one line per record, written under the root's mutex.    *)
(* Goroutines are the processes 1..NumProcs; every call is split at the    *)
(* points where the mutex is taken and released.                           *)
(***************************************************************************)
EXTENDS Integers, Sequences, FiniteSets, TLC

\* ---------------------------------------------------------------- bounds
\* goroutines
NumProcs == 2
\* Handle calls on buffering Handlers
MaxRecords == 2
\* buffering Handlers allocated (New and the results of WithAttrs/WithGroup)
MaxHandlers == 3
\* EmitTo calls
MaxEmits == 2

\* CLIHandlers allocated (NewCLIHandler and the results of WithAttrs/WithGroup)
MaxCLIHandlers == 3
\* CLIHandler.Handle calls, where goroutines race and where the sink fails
MaxLines == 2
\* CLIHandler.Handle calls, where the content of the line is examined
MaxRenderLines == 1

\* runes in a key or in the text of a value given to appendString
MaxStrLen == 2

\* Logger.Log calls of the pgx adapter
MaxLogs == 1

\* where derivations go on between the steps of Handle and EmitTo: Handle
\* calls, EmitTo calls, CLIHandlers allocated
MaxSnapRecords == 1
MaxSnapEmits == 1
MaxSnapCLIHandlers == 2

\* ---------------------------------------------------------------- values
Procs == 1..NumProcs

\* slog levels used as inputs: slog.LevelDebug and slog.LevelInfo
Levels == {-4, 0}

\* slogutils.LevelTrace
LevelTrace == -8

\* attribute batches and group names a caller may pass; the empty batch and
\* the empty name are the no-op inputs
AttrBatches == {<<>>, <<"a">>}
GroupNames == {"", "g"}

\* the nil slog.Handler
NilHandler == [nil |-> TRUE]

\* downstream handlers a caller may pass to EmitTo: a handler with a minimum
\* level and no scope yet (such as slog.NewTextHandler with a Level option)
Downstreams == {[nil |-> FALSE, level |-> l, goas |-> <<>>] : l \in Levels}

VARIABLES
    handlers,   \* the buffering Handlers allocated so far; a *Handler is an index
    records,    \* Emitter.records
    mu,         \* Emitter.mu: 0 when free, else the goroutine holding it
    pc,         \* where each goroutine is
    arg,        \* the arguments of the call a goroutine is in
    rng,        \* EmitTo: the slice the range statement iterates over
    idx,        \* EmitTo: position of the range loop
    err,        \* EmitTo: the error it returns
    sent,       \* history: what the downstream's Handle was given in this EmitTo
                \* (the record, the scope of the handler it was given to, the
                \* scope the record was captured with, and Handle's outcome)
    nextId,     \* history: identity of the next record passed to Handle
    count,      \* history: how often each record was given to a downstream
    done,       \* history: records removed from the buffer by EmitTo
    failed,     \* history: some EmitTo has returned an error
    emits,      \* history: number of EmitTo calls made
    lastDerive  \* history: the last WithAttrs/WithGroup call: was its input
                \* empty, and is its result the receiver itself

bufVars == <<handlers, records, mu, pc, arg, rng, idx, err, sent, nextId,
             count, done, failed, emits, lastDerive>>

VARIABLES
    clis,       \* the CLIHandlers allocated so far; a *CLIHandler is an index
    cmu,        \* the sync.Mutex objects: 0 when free, else the goroutine holding it
    cpc,        \* where each goroutine is in CLIHandler.Handle
    carg,       \* the handler and record of the Handle call a goroutine is in
    cbuf,       \* Handle: buf, the line being built
    cpos,       \* Handle: how much of buf the sink has received
    werr,       \* Handle: the error buf.WriteTo returned (TRUE) or nil (FALSE)
    cret,       \* Handle: its return value, "nil" or "err"
    sink,       \* h.w: what was written, each piece tagged with its record
    lines,      \* history: number of Handle calls made
    calls,      \* history: the ReplaceAttr calls the last Handle made
    cliLastDerive \* history: as lastDerive, for CLIHandler

cliVars == <<clis, cmu, cpc, carg, cbuf, cpos, werr, cret, sink, lines, calls,
             cliLastDerive>>

VARIABLES
    quote,      \* appendAttr's default branch: where it is, and what the last
                \* appendString or appendValue call was given and wrote to buf
    pgx         \* the pgx adapter's Logger.Log: where it is, its arguments and
                \* locals, and what it has given to the slog.Logger

auxVars == <<quote, pgx>>

vars == <<bufVars, cliVars, auxVars>>

\* ------------------------------------------------- groupOrAttrs (CLI handler,
\* and the scope a downstream handler accumulates)
GroupEntry(name) == [group |-> name, attrs |-> <<>>]
AttrsEntry(as) == [group |-> "", attrs |-> as]

\* ---------------------------------------------------------- package buffering

\* New(): a Handler with no attrs and no groups.  scope is history: the
\* WithAttrs/WithGroup calls that built the handler, in call order.
NewHandler == [attrs |-> <<>>, groups |-> <<>>, scope |-> <<>>]

\* Handler.Enabled
HandlerEnabled(level) == TRUE

\* Handler.WithAttrs: always a new Handler
HandlerWithAttrs(h, as) ==
    [attrs |-> handlers[h].attrs \o as,
     groups |-> handlers[h].groups,
     scope |-> IF as = <<>> THEN handlers[h].scope
               ELSE Append(handlers[h].scope, AttrsEntry(as))]

\* Handler.WithGroup, for a non-empty name
HandlerWithGroup(h, name) ==
    [attrs |-> handlers[h].attrs,
     groups |-> Append(handlers[h].groups, name),
     scope |-> Append(handlers[h].scope, GroupEntry(name))]

\* the bufferedRecord Handle appends (scope is history, copied from the handler)
BufferedRecord(h, r) ==
    [record |-> r, level |-> r.level,
     attrs |-> handlers[h].attrs, groups |-> handlers[h].groups,
     scope |-> handlers[h].scope]

\* a downstream slog.Handler: WithGroup, WithAttrs, Enabled
DownWithGroup(d, g) == [d EXCEPT !.goas = Append(@, GroupEntry(g))]
DownWithAttrs(d, as) == [d EXCEPT !.goas = Append(@, AttrsEntry(as))]
DownEnabled(d, level) == level >= d.level

RECURSIVE ApplyGroups(_, _)
ApplyGroups(d, gs) ==
    IF gs = <<>> THEN d ELSE ApplyGroups(DownWithGroup(d, Head(gs)), Tail(gs))

\* EmitTo: "current" after the record's groups and attrs have been applied
Reconstruct(d, br) ==
    LET withGroups == ApplyGroups(d, br.groups)
    IN  IF Len(br.attrs) > 0 THEN DownWithAttrs(withGroups, br.attrs)
        ELSE withGroups

\* a downstream that is a *Handler of this package, on the same Emitter
BufferingDownstream(h) == [nil |-> FALSE, h |-> h]
IsBufferingHandler(d) == "h" \in DOMAIN d

\* EmitTo: "current" when the downstream is the *Handler h: the Handler that
\* the WithGroup calls and the WithAttrs call on it end with
ReconstructBuffering(h, br) ==
    [attrs |-> handlers[h].attrs \o br.attrs,
     groups |-> handlers[h].groups \o br.groups,
     scope |-> handlers[h].scope
               \o [i \in 1..Len(br.groups) |-> GroupEntry(br.groups[i])]
               \o (IF Len(br.attrs) > 0 THEN <<AttrsEntry(br.attrs)>> ELSE <<>>)]

\* EmitTo: is the record forwarded
ShouldForward_always(d, br) == TRUE
ShouldForward(d, br) == DownEnabled(Reconstruct(d, br), br.level)

\* EmitTo: if err != nil { return err }
ReplayStops_never(ok) == FALSE
ReplayStops(ok) == ~ok

\* sync.Mutex.Lock can proceed
MutexFree_nolock == TRUE
MutexFree == mu = 0

\* e.records = nil
ClearedRecords_keep == records
ClearedRecords == <<>>

BufInit ==
    /\ handlers = <<NewHandler>>
    /\ records = <<>>
    /\ mu = 0
    /\ pc = [p \in Procs |-> "idle"]
    /\ arg = [p \in Procs |-> NilHandler]
    /\ rng = [p \in Procs |-> <<>>]
    /\ idx = [p \in Procs |-> 0]
    /\ err = [p \in Procs |-> FALSE]
    /\ sent = [p \in Procs |-> <<>>]
    /\ nextId = 1
    /\ count = [i \in {} |-> 0]
    /\ done = {}
    /\ failed = FALSE
    /\ emits = 0
    /\ lastDerive = [op |-> "none", empty |-> FALSE, same |-> FALSE]

\* &Handler{...}: the result of a derivation is a new Handler, and the
\* receiver h stays as it is
NewObject_inPlace(h, derived) == Append([handlers EXCEPT ![h] = derived], derived)
NewObject(h, derived) == Append(handlers, derived)

\* h.WithAttrs(as), called by any goroutine; takes no lock
WithAttrs(h, as) ==
    /\ Len(handlers) < MaxHandlers
    /\ handlers' = NewObject(h, HandlerWithAttrs(h, as))
    /\ lastDerive' = [op |-> "WithAttrs", empty |-> as = <<>>, same |-> FALSE]
    /\ UNCHANGED <<cliVars, auxVars, records, mu, pc, arg, rng, idx, err, sent, nextId, count,
                   done, failed, emits>>

\* h.WithGroup(name), called by any goroutine; takes no lock
WithGroup(h, name) ==
    /\ Len(handlers) < MaxHandlers
    /\ IF name = ""
       THEN /\ handlers' = handlers
            /\ lastDerive' = [op |-> "WithGroup", empty |-> TRUE, same |-> TRUE]
       ELSE /\ handlers' = NewObject(h, HandlerWithGroup(h, name))
            /\ lastDerive' = [op |-> "WithGroup", empty |-> FALSE, same |-> FALSE]
    /\ UNCHANGED <<cliVars, auxVars, records, mu, pc, arg, rng, idx, err, sent, nextId, count,
                   done, failed, emits>>

\* goroutine p calls h.Handle(ctx, r).  The field at of the record is history:
\* the attrs and groups h has at the call.
HandleCall(p, h, level) ==
    /\ pc[p] = "idle"
    /\ nextId <= MaxRecords
    /\ arg' = [arg EXCEPT ![p] =
                  [h |-> h, r |-> [id |-> nextId, level |-> level,
                                   at |-> [attrs |-> handlers[h].attrs,
                                           groups |-> handlers[h].groups]]]]
    /\ nextId' = nextId + 1
    /\ count' = [i \in 1..nextId |-> IF i = nextId THEN 0 ELSE count[i]]
    /\ pc' = [pc EXCEPT ![p] = "h_lock"]
    /\ UNCHANGED <<cliVars, auxVars, handlers, records, mu, rng, idx, err, sent, done, failed,
                   emits, lastDerive>>

\* h.mu.Lock()
HandleLock(p) ==
    /\ pc[p] = "h_lock"
    /\ MutexFree
    /\ mu' = p
    /\ pc' = [pc EXCEPT ![p] = "h_append"]
    /\ UNCHANGED <<cliVars, auxVars, handlers, records, arg, rng, idx, err, sent, nextId, count,
                   done, failed, emits, lastDerive>>

\* h.records = append(h.records, bufferedRecord{...})
HandleAppend(p) ==
    /\ pc[p] = "h_append"
    /\ records' = Append(records, BufferedRecord(arg[p].h, arg[p].r))
    /\ pc' = [pc EXCEPT ![p] = "h_unlock"]
    /\ UNCHANGED <<cliVars, auxVars, handlers, mu, arg, rng, idx, err, sent, nextId, count, done,
                   failed, emits, lastDerive>>

\* return nil, running the deferred h.mu.Unlock()
HandleReturn(p) ==
    /\ pc[p] = "h_unlock"
    /\ mu' = 0
    /\ arg' = [arg EXCEPT ![p] = NilHandler]
    /\ pc' = [pc EXCEPT ![p] = "idle"]
    /\ UNCHANGED <<cliVars, auxVars, handlers, records, rng, idx, err, sent, nextId, count,
                   done, failed, emits, lastDerive>>

\* goroutine p calls e.EmitTo(d); a nil handler returns nil at once
EmitToCall(p, d) ==
    /\ pc[p] = "idle"
    /\ emits < MaxEmits
    /\ emits' = emits + 1
    /\ arg' = [arg EXCEPT ![p] = IF d.nil THEN NilHandler ELSE d]
    /\ pc' = [pc EXCEPT ![p] = IF d.nil THEN "idle" ELSE "e_lock"]
    /\ UNCHANGED <<cliVars, auxVars, handlers, records, mu, rng, idx, err, sent, nextId, count,
                   done, failed, lastDerive>>

\* e.mu.Lock(), and the range statement evaluates e.records
EmitLock(p) ==
    /\ pc[p] = "e_lock"
    /\ MutexFree
    /\ mu' = p
    /\ rng' = [rng EXCEPT ![p] = records]
    /\ idx' = [idx EXCEPT ![p] = 1]
    /\ pc' = [pc EXCEPT ![p] = "e_loop"]
    /\ UNCHANGED <<cliVars, auxVars, handlers, records, arg, err, sent, nextId, count, done,
                   failed, emits, lastDerive>>

\* one iteration of the loop: the record is skipped ...
EmitSkip(p) ==
    /\ pc[p] = "e_loop"
    /\ idx[p] <= Len(rng[p])
    /\ ~IsBufferingHandler(arg[p])
    /\ ~ShouldForward(arg[p], rng[p][idx[p]])
    /\ idx' = [idx EXCEPT ![p] = @ + 1]
    /\ UNCHANGED <<cliVars, auxVars, handlers, records, mu, pc, arg, rng, err, sent, nextId,
                   count, done, failed, emits, lastDerive>>

\* ... or given to current.Handle, which returns nil (ok) or an error
EmitForward(p, ok) ==
    /\ pc[p] = "e_loop"
    /\ idx[p] <= Len(rng[p])
    /\ ~IsBufferingHandler(arg[p])
    /\ LET br == rng[p][idx[p]]
           current == Reconstruct(arg[p], br)
       IN  /\ ShouldForward(arg[p], br)
           /\ sent' = [sent EXCEPT ![p] =
                         Append(@, [record |-> br.record, goas |-> current.goas,
                                    scope |-> br.scope, ok |-> ok])]
           /\ count' = [count EXCEPT ![br.record.id] = @ + 1]
    /\ IF ReplayStops(ok)
       THEN /\ err' = [err EXCEPT ![p] = TRUE]
            /\ failed' = TRUE
            /\ pc' = [pc EXCEPT ![p] = "e_ret"]
            /\ UNCHANGED idx
       ELSE /\ idx' = [idx EXCEPT ![p] = @ + 1]
            /\ UNCHANGED <<cliVars, auxVars, pc, err, failed>>
    /\ UNCHANGED <<cliVars, auxVars, handlers, records, mu, arg, rng, nextId, done, emits,
                   lastDerive>>

\* one iteration of the loop when the downstream is a *Handler on the same
\* Emitter: current is built, its Enabled answers true, and EmitTo calls
\* current.Handle while it holds the mutex.  The goroutine is then in
\* Handler.Handle, at h.mu.Lock(); caller is the frame of EmitTo it would
\* come back to.
EmitForwardBuffering(p) ==
    /\ pc[p] = "e_loop"
    /\ idx[p] <= Len(rng[p])
    /\ IsBufferingHandler(arg[p])
    /\ LET br == rng[p][idx[p]]
           derived == Len(br.groups) > 0 \/ Len(br.attrs) > 0
           current == IF derived THEN Len(handlers) + 1 ELSE arg[p].h
       IN  /\ HandlerEnabled(br.level)
           /\ handlers' = IF derived
                          THEN Append(handlers, ReconstructBuffering(arg[p].h, br))
                          ELSE handlers
           /\ arg' = [arg EXCEPT ![p] = [h |-> current, r |-> br.record,
                                         caller |-> arg[p]]]
           /\ count' = [count EXCEPT ![br.record.id] = @ + 1]
    /\ pc' = [pc EXCEPT ![p] = "h_lock"]
    /\ UNCHANGED <<cliVars, auxVars, records, mu, rng, idx, err, sent, nextId, done,
                   failed, emits, lastDerive>>

\* the loop is over: e.records = nil
EmitClear(p) ==
    /\ pc[p] = "e_loop"
    /\ idx[p] > Len(rng[p])
    /\ done' = done \cup {records[i].record.id : i \in 1..Len(records)}
    /\ records' = ClearedRecords
    /\ pc' = [pc EXCEPT ![p] = "e_ret"]
    /\ UNCHANGED <<cliVars, auxVars, handlers, mu, arg, rng, idx, err, sent, nextId, count,
                   failed, emits, lastDerive>>

\* return err or nil, running the deferred e.mu.Unlock()
EmitReturn(p) ==
    /\ pc[p] = "e_ret"
    /\ mu' = 0
    /\ pc' = [pc EXCEPT ![p] = "idle"]
    /\ arg' = [arg EXCEPT ![p] = NilHandler]
    /\ rng' = [rng EXCEPT ![p] = <<>>]
    /\ idx' = [idx EXCEPT ![p] = 0]
    /\ err' = [err EXCEPT ![p] = FALSE]
    /\ sent' = [sent EXCEPT ![p] = <<>>]
    /\ UNCHANGED <<cliVars, auxVars, handlers, records, nextId, count, done, failed,
                   emits, lastDerive>>

\* concurrent Handle and EmitTo calls on one Emitter
BufNext ==
    \/ \E p \in Procs, h \in 1..Len(handlers), l \in Levels : HandleCall(p, h, l)
    \/ \E p \in Procs : HandleLock(p)
    \/ \E p \in Procs : HandleAppend(p)
    \/ \E p \in Procs : HandleReturn(p)
    \/ \E p \in Procs, d \in Downstreams \cup {NilHandler} : EmitToCall(p, d)
    \/ \E p \in Procs : EmitLock(p)
    \/ \E p \in Procs : EmitSkip(p)
    \/ \E p \in Procs, ok \in BOOLEAN : EmitForward(p, ok)
    \/ \E p \in Procs : EmitClear(p)
    \/ \E p \in Procs : EmitReturn(p)

\* concurrent Handle and EmitTo calls where the handler given to EmitTo may be
\* a Handler of the same Emitter
NestedNext ==
    \/ \E h \in 1..Len(handlers) : WithGroup(h, "g")
    \/ \E p \in Procs, h \in 1..Len(handlers), l \in Levels : HandleCall(p, h, l)
    \/ \E p \in Procs : HandleLock(p)
    \/ \E p \in Procs : HandleAppend(p)
    \/ \E p \in Procs : HandleReturn(p)
    \/ \E p \in Procs, d \in Downstreams \cup {NilHandler} : EmitToCall(p, d)
    \/ \E p \in Procs, h \in 1..Len(handlers) :
           EmitToCall(p, BufferingDownstream(h))
    \/ \E p \in Procs : EmitLock(p)
    \/ \E p \in Procs : EmitSkip(p)
    \/ \E p \in Procs, ok \in BOOLEAN : EmitForward(p, ok)
    \/ \E p \in Procs : EmitForwardBuffering(p)
    \/ \E p \in Procs : EmitClear(p)
    \/ \E p \in Procs : EmitReturn(p)

\* one goroutine derives handlers, logs through them and replays
ScopeNext ==
    \/ \E h \in 1..Len(handlers), as \in AttrBatches : WithAttrs(h, as)
    \/ \E h \in 1..Len(handlers), name \in GroupNames : WithGroup(h, name)
    \/ \E h \in 1..Len(handlers), l \in Levels : HandleCall(1, h, l)
    \/ HandleLock(1)
    \/ HandleAppend(1)
    \/ HandleReturn(1)
    \/ \E d \in Downstreams \cup {NilHandler} : EmitToCall(1, d)
    \/ EmitLock(1)
    \/ EmitSkip(1)
    \/ \E ok \in BOOLEAN : EmitForward(1, ok)
    \/ EmitClear(1)
    \/ EmitReturn(1)

\* ------------------------------------------------------------------ CLIHandler

\* slog.MessageKey
MessageKey == "msg"

\* slog.Value: a string, a group of attributes, or the zero Value (an Any
\* holding nil, which formats as "<nil>")
StringValue(str) == [kind |-> "String", s |-> str, attrs |-> <<>>]
GroupValue(as) == [kind |-> "Group", s |-> "", attrs |-> as]
ZeroValue == [kind |-> "Any", s |-> "<nil>", attrs |-> <<>>]

\* slog.Attr and the zero Attr
Attr(k, v) == [key |-> k, val |-> v]
ZeroAttr == Attr("", ZeroValue)

\* Value.String()
ValueString(v) == v.s

\* the ReplaceAttr functions a caller may configure: none; the tests' drop of
\* the message key (top level only); the tests' function dropping key "k"
\* inside group "g"; the tests' function dropping everything
ReplaceFns == {"nil", "dropMsg", "dropKInG", "dropAll"}

\* a function that returns every attribute with its key set to "", its value
\* kept, next to the one that returns the zero Attr
EmptyKeyFns == {"emptyKey", "dropAll"}

ReplaceAttr(fn, groups, a) ==
    CASE fn = "dropMsg" ->
             IF Len(groups) > 0 THEN a
             ELSE IF a.key = MessageKey THEN ZeroAttr ELSE a
      [] fn = "dropKInG" ->
             IF a.key = "k" /\ groups = <<"g">> THEN ZeroAttr ELSE a
      [] fn = "dropAll" -> ZeroAttr
      [] fn = "emptyKey" -> Attr("", a.val)
      [] OTHER -> a

\* a nil *color.Color, and a piece written without a color
NilColor == "nil"
NoColor == ""

\* the pieces of a line.  A key is the sequence of its dot-separated segments:
\* <<"g", "k">> stands for the bytes of "g." followed by the bytes of "k".
\* color is the color.Color a piece is written through.
PrefixPiece(level, glyph) ==
    [t |-> "prefix", level |-> level, s |-> glyph, key |-> <<>>, val |-> ZeroValue,
     color |-> NoColor]
MessagePiece(msg) ==
    [t |-> "msg", level |-> 0, s |-> msg, key |-> <<>>, val |-> ZeroValue,
     color |-> NoColor]
AttrPiece(key, v) ==
    [t |-> "attr", level |-> 0, s |-> "", key |-> key, val |-> v, color |-> NoColor]
NewlinePiece ==
    [t |-> "nl", level |-> 0, s |-> "", key |-> <<>>, val |-> ZeroValue,
     color |-> NoColor]

\* the built-in maps; the glyphs are written "-", "o", "*", "^", "x" here
cliDefaultLevelColors ==
    (LevelTrace :> "faint") @@ (-4 :> "whiteFaint") @@ (0 :> "blue")
        @@ (4 :> "yellow") @@ (8 :> "red")
cliDefaultLevelPrefixes ==
    (LevelTrace :> "-") @@ (-4 :> "o") @@ (0 :> "*") @@ (4 :> "^") @@ (8 :> "x")

\* m[k] of a Go map: the zero value when k is not a key
MapIndex(m, k, zero) == IF k \in DOMAIN m THEN m[k] ELSE zero

\* a nil map option, and a map option the caller has set
NilMap == [nil |-> TRUE]
SetMap(m) == [nil |-> FALSE, m |-> m]

\* Handle: the color and the glyph of a record's level
LevelColor(h, level) == MapIndex(cliDefaultLevelColors, level, NilColor)
LevelPrefix(h, level) == MapIndex(clis[h].levelPrefixes, level, "")

\* (*color.Color).Fprintf and SetWriter read a field of their receiver: on a
\* nil *color.Color the call panics with a nil pointer dereference
ColorPanics(c) == c = NilColor

\* the glyph and the keys are written through levelColor
Colorize(c, line) ==
    [i \in 1..Len(line) |->
        IF line[i].t \in {"prefix", "attr"} THEN [line[i] EXCEPT !.color = c]
        ELSE line[i]]

\* an appendAttr that renders a group-valued attribute as a key=value pair
appendAttr_groupAsPair(attr, groupsPrefix) ==
    IF attr = ZeroAttr THEN <<>>
    ELSE <<AttrPiece(Append(groupsPrefix, attr.key), attr.val)>>

\* an appendAttr that returns at once for every attribute with an empty key
RECURSIVE appendAttr_emptyKey(_, _)
appendAttr_emptyKey(attr, groupsPrefix) ==
    IF attr.key = "" THEN <<>>
    ELSE IF attr.val.kind = "Group"
    THEN LET children == attr.val.attrs
             RECURSIVE each(_)
             each(i) == IF i > Len(children) THEN <<>>
                        ELSE appendAttr_emptyKey(children[i],
                                                 Append(groupsPrefix, attr.key))
                             \o each(i + 1)
         IN  each(1)
    ELSE <<AttrPiece(Append(groupsPrefix, attr.key), attr.val)>>

\* CLIHandler.appendAttr: what it appends to buf
RECURSIVE appendAttr(_, _)
appendAttr(attr, groupsPrefix) ==
    IF attr = ZeroAttr THEN <<>>
    ELSE IF attr.val.kind = "Group"
    THEN LET children == attr.val.attrs
             RECURSIVE each(_)
             each(i) == IF i > Len(children) THEN <<>>
                        ELSE appendAttr(children[i], Append(groupsPrefix, attr.key))
                             \o each(i + 1)
         IN  each(1)
    ELSE <<AttrPiece(Append(groupsPrefix, attr.key), attr.val)>>

\* Handle: the message after ReplaceAttr
ResolveMessage(fn, msg) ==
    IF fn # "nil"
    THEN LET a == ReplaceAttr(fn, <<>>, Attr(MessageKey, StringValue(msg)))
         IN  IF a.key # "" THEN ValueString(a.val) ELSE ""
    ELSE msg

\* Handle: goas without the groups at its end, when the record has no Attrs
RECURSIVE TrimGroups(_)
TrimGroups(goas) ==
    IF Len(goas) > 0 /\ goas[Len(goas)].group # ""
    THEN TrimGroups(SubSeq(goas, 1, Len(goas) - 1))
    ELSE goas

ActiveGoas(goas, r) == IF Len(r.attrs) = 0 THEN TrimGroups(goas) ELSE goas

\* Handle: one attribute, through ReplaceAttr when there is one
AttrOut(fn, groups, a, attrPrefix) ==
    appendAttr(IF fn # "nil" THEN ReplaceAttr(fn, groups, a) ELSE a, attrPrefix)

RECURSIVE AttrsOut(_, _, _, _)
AttrsOut(fn, groups, as, attrPrefix) ==
    IF as = <<>> THEN <<>>
    ELSE AttrOut(fn, groups, Head(as), attrPrefix)
         \o AttrsOut(fn, groups, Tail(as), attrPrefix)

\* the group names, and the attributes, of a sequence of groupOrAttrs
RECURSIVE GroupsOf(_)
GroupsOf(goas) ==
    IF goas = <<>> THEN <<>>
    ELSE (IF Head(goas).group # "" THEN <<Head(goas).group>> ELSE <<>>)
         \o GroupsOf(Tail(goas))

RECURSIVE AttrsOf(_)
AttrsOf(goas) ==
    IF goas = <<>> THEN <<>> ELSE Head(goas).attrs \o AttrsOf(Tail(goas))

\* a Handle that opens every group before it renders any attribute
ScopeOut_groupsFirst(fn, goas, attrPrefix, groups, r) ==
    AttrsOut(fn, groups \o GroupsOf(goas), AttrsOf(goas) \o r.attrs,
             attrPrefix \o GroupsOf(goas))

\* Handle: the loop over goas followed by r.Attrs.  attrPrefix and groups
\* grow together; attrPrefix is the sequence of segments of the prefix string.
RECURSIVE ScopeOut(_, _, _, _, _)
ScopeOut(fn, goas, attrPrefix, groups, r) ==
    IF goas = <<>> THEN AttrsOut(fn, groups, r.attrs, attrPrefix)
    ELSE LET goa == Head(goas)
         IN  IF goa.group # ""
             THEN ScopeOut(fn, Tail(goas), Append(attrPrefix, goa.group),
                           Append(groups, goa.group), r)
             ELSE AttrsOut(fn, groups, goa.attrs, attrPrefix)
                  \o ScopeOut(fn, Tail(goas), attrPrefix, groups, r)

\* Handle: the line it builds in buf
FormatLine(h, r) ==
    Colorize(LevelColor(h, r.level),
        <<PrefixPiece(r.level, LevelPrefix(h, r.level)),
          MessagePiece(ResolveMessage(clis[h].replaceAttr, r.msg))>>
        \o ScopeOut(clis[h].replaceAttr, ActiveGoas(clis[h].goas, r), <<>>, <<>>, r)
        \o <<NewlinePiece>>)

\* Handle: does it panic before anything is written (line 158, on a nil levelColor)
HandlePanics(h, r) == ColorPanics(LevelColor(h, r.level))

\* Handle: the calls of ReplaceAttr it makes, each with its groups argument
RECURSIVE ScopeCalls(_, _, _)
ScopeCalls(goas, groups, r) ==
    IF goas = <<>> THEN [i \in 1..Len(r.attrs) |-> <<groups, r.attrs[i]>>]
    ELSE LET goa == Head(goas)
         IN  IF goa.group # ""
             THEN ScopeCalls(Tail(goas), Append(groups, goa.group), r)
             ELSE [i \in 1..Len(goa.attrs) |-> <<groups, goa.attrs[i]>>]
                  \o ScopeCalls(Tail(goas), groups, r)

ReplaceAttrCalls(h, r) ==
    IF clis[h].replaceAttr = "nil" THEN <<>>
    ELSE <<<<(<<>>), Attr(MessageKey, StringValue(r.msg))>>>>
         \o ScopeCalls(ActiveGoas(clis[h].goas, r), <<>>, r)

\* Handle: its return value, given whether the write to the sink failed
HandleResult(writeFailed) == "nil"

\* withGroupOrAttrs: the mutex of the copy (h2 := *h copies the pointer)
CopiedMutex_fresh(h) == Len(clis) + 1
CopiedMutex(h) == clis[h].mu

\* withGroupOrAttrs.  open and want are history: the groups opened so far, and
\* every attribute added so far with the groups that were open when it was
\* added.
withGroupOrAttrs(h, goa) ==
    [goas |-> Append(clis[h].goas, goa),
     replaceAttr |-> clis[h].replaceAttr,
     levelPrefixes |-> clis[h].levelPrefixes,
     levelColors |-> clis[h].levelColors,
     mu |-> CopiedMutex(h),
     open |-> IF goa.group # "" THEN Append(clis[h].open, goa.group)
              ELSE clis[h].open,
     want |-> clis[h].want
              \o [i \in 1..Len(goa.attrs) |-> <<clis[h].open, goa.attrs[i]>>]]

\* CLIHandlerOptions: ReplaceAttr, Prefix.Prefixes and LevelColors
Options(fn, prefixes, colors) ==
    [replaceAttr |-> fn, prefixes |-> prefixes, levelColors |-> colors]

\* NewCLIHandler(w, opts)
NewCLIHandler(opts) ==
    [goas |-> <<>>,
     replaceAttr |-> opts.replaceAttr,
     levelPrefixes |-> IF opts.prefixes.nil THEN cliDefaultLevelPrefixes
                       ELSE opts.prefixes.m,
     levelColors |-> IF opts.levelColors.nil THEN cliDefaultLevelColors
                     ELSE opts.levelColors.m,
     mu |-> 1, open |-> <<>>, want |-> <<>>]

\* inputs: attribute batches for WithAttrs, and the attributes of the records
\* given to Handle (none where goroutines race, plain and group-valued ones
\* where the content of the line is examined)
KV == Attr("k", StringValue("v"))
CLIBatches == {<<>>, <<KV>>}
ConcRecordAttrs == {<<>>}
RenderRecordAttrs ==
    {<<>>, <<KV>>, <<Attr("j", StringValue("w")), KV>>,
     <<Attr("g", GroupValue(<<KV>>))>>,
     <<Attr("g", GroupValue(<<>>))>>,
     <<Attr("g", GroupValue(<<Attr("i", GroupValue(<<>>))>>))>>}

\* inputs: the levels of the records given to Handle where glyph and color
\* are examined (trace, info, a level between info and warn that the built-in
\* maps do not have, error), and the maps a caller may configure
NoticeLevel == 2
CLILevels == {LevelTrace, 0, NoticeLevel, 8}
CustomPrefixes == (0 :> "i") @@ (NoticeLevel :> "n") @@ (8 :> "e")
CustomColors ==
    (LevelTrace :> "grey") @@ (0 :> "green") @@ (NoticeLevel :> "cyan")
        @@ (8 :> "magenta")
LevelOptions ==
    {Options("nil", ps, cs) : ps \in {NilMap, SetMap(CustomPrefixes)},
                              cs \in {NilMap, SetMap(CustomColors)}}

CLIInitOpts(optss) ==
    /\ \E opts \in optss : clis = <<NewCLIHandler(opts)>>
    /\ cmu = [m \in 1..MaxCLIHandlers |-> 0]
    /\ cpc = [p \in Procs |-> "idle"]
    /\ carg = [p \in Procs |-> [h |-> 0, r |-> [id |-> 0]]]
    /\ cbuf = [p \in Procs |-> <<>>]
    /\ cpos = [p \in Procs |-> 0]
    /\ werr = [p \in Procs |-> FALSE]
    /\ cret = [p \in Procs |-> "nil"]
    /\ sink = <<>>
    /\ lines = 0
    /\ calls = <<>>
    /\ cliLastDerive = [op |-> "none", empty |-> FALSE, same |-> FALSE]

CLIInitWith(fns) == CLIInitOpts({Options(fn, NilMap, NilMap) : fn \in fns})

\* h.WithAttrs(as); takes no lock
CLIWithAttrs(h, as) ==
    /\ Len(clis) < MaxCLIHandlers
    /\ IF Len(as) = 0
       THEN /\ clis' = clis
            /\ cliLastDerive' = [op |-> "WithAttrs", empty |-> TRUE, same |-> TRUE]
       ELSE /\ clis' = Append(clis, withGroupOrAttrs(h, AttrsEntry(as)))
            /\ cliLastDerive' = [op |-> "WithAttrs", empty |-> FALSE, same |-> FALSE]
    /\ UNCHANGED <<bufVars, auxVars, cmu, cpc, carg, cbuf, cpos, werr, cret, sink, lines, calls>>

\* h.WithGroup(name); takes no lock
CLIWithGroup(h, name) ==
    /\ Len(clis) < MaxCLIHandlers
    /\ IF name = ""
       THEN /\ clis' = clis
            /\ cliLastDerive' = [op |-> "WithGroup", empty |-> TRUE, same |-> TRUE]
       ELSE /\ clis' = Append(clis, withGroupOrAttrs(h, GroupEntry(name)))
            /\ cliLastDerive' = [op |-> "WithGroup", empty |-> FALSE, same |-> FALSE]
    /\ UNCHANGED <<bufVars, auxVars, cmu, cpc, carg, cbuf, cpos, werr, cret, sink, lines, calls>>

\* goroutine p calls h.Handle(ctx, r)
CLIHandleCall(p, h, l, as) ==
    /\ cpc[p] = "idle"
    /\ lines' = lines + 1
    /\ carg' = [carg EXCEPT ![p] =
                  [h |-> h, r |-> [id |-> lines + 1, level |-> l, msg |-> "m",
                                   attrs |-> as]]]
    /\ cpc' = [cpc EXCEPT ![p] = "c_lock"]
    /\ UNCHANGED <<bufVars, auxVars, clis, cmu, cbuf, cpos, werr, cret, sink, calls, cliLastDerive>>

\* h.mu.Lock()
CLILock(p) ==
    /\ cpc[p] = "c_lock"
    /\ cmu[clis[carg[p].h].mu] = 0
    /\ cmu' = [cmu EXCEPT ![clis[carg[p].h].mu] = p]
    /\ cpc' = [cpc EXCEPT ![p] = "c_format"]
    /\ UNCHANGED <<bufVars, auxVars, clis, carg, cbuf, cpos, werr, cret, sink, lines, calls,
                   cliLastDerive>>

\* the line is built in buf; when writing the glyph panics, the deferred
\* Unlock runs and the panic goes up to the caller of Handle
CLIFormat(p) ==
    /\ cpc[p] = "c_format"
    /\ IF HandlePanics(carg[p].h, carg[p].r)
       THEN /\ cmu' = [cmu EXCEPT ![clis[carg[p].h].mu] = 0]
            /\ cpc' = [cpc EXCEPT ![p] = "c_panic"]
            /\ UNCHANGED <<cbuf, calls, cpos, werr>>
       ELSE /\ cbuf' = [cbuf EXCEPT ![p] = FormatLine(carg[p].h, carg[p].r)]
            /\ calls' = ReplaceAttrCalls(carg[p].h, carg[p].r)
            /\ cpos' = [cpos EXCEPT ![p] = 0]
            /\ werr' = [werr EXCEPT ![p] = FALSE]
            /\ cpc' = [cpc EXCEPT ![p] = "c_write"]
            /\ UNCHANGED cmu
    /\ UNCHANGED <<bufVars, auxVars, clis, carg, cret, sink, lines, cliLastDerive>>

\* buf.WriteTo(h.w): the sink takes the next piece of the line, or fails
CLIWrite(p, ok) ==
    /\ cpc[p] = "c_write"
    /\ cpos[p] < Len(cbuf[p])
    /\ IF ok
       THEN /\ sink' = Append(sink, [line |-> carg[p].r.id,
                                     piece |-> cbuf[p][cpos[p] + 1]])
            /\ cpos' = [cpos EXCEPT ![p] = @ + 1]
            /\ UNCHANGED <<bufVars, auxVars, werr, cpc>>
       ELSE /\ werr' = [werr EXCEPT ![p] = TRUE]
            /\ cpc' = [cpc EXCEPT ![p] = "c_ret"]
            /\ UNCHANGED <<bufVars, auxVars, sink, cpos>>
    /\ UNCHANGED <<bufVars, auxVars, clis, cmu, carg, cbuf, cret, lines, calls, cliLastDerive>>

\* the whole line has been written
CLIWritten(p) ==
    /\ cpc[p] = "c_write"
    /\ cpos[p] = Len(cbuf[p])
    /\ cpc' = [cpc EXCEPT ![p] = "c_ret"]
    /\ UNCHANGED <<bufVars, auxVars, clis, cmu, carg, cbuf, cpos, werr, cret, sink, lines, calls,
                   cliLastDerive>>

\* return, running the deferred h.mu.Unlock()
CLIReturn(p) ==
    /\ cpc[p] = "c_ret"
    /\ cret' = [cret EXCEPT ![p] = HandleResult(werr[p])]
    /\ cmu' = [cmu EXCEPT ![clis[carg[p].h].mu] = 0]
    /\ cpc' = [cpc EXCEPT ![p] = "c_done"]
    /\ UNCHANGED <<bufVars, auxVars, clis, carg, cbuf, cpos, werr, sink, lines, calls,
                   cliLastDerive>>

\* the caller has looked at Handle's result and goes on
CLIDone(p) ==
    /\ cpc[p] = "c_done"
    /\ cpc' = [cpc EXCEPT ![p] = "idle"]
    /\ carg' = [carg EXCEPT ![p] = [h |-> 0, r |-> [id |-> 0]]]
    /\ cbuf' = [cbuf EXCEPT ![p] = <<>>]
    /\ cpos' = [cpos EXCEPT ![p] = 0]
    /\ werr' = [werr EXCEPT ![p] = FALSE]
    /\ cret' = [cret EXCEPT ![p] = "nil"]
    /\ UNCHANGED <<bufVars, auxVars, clis, cmu, sink, lines, calls, cliLastDerive>>

\* ------------------------------------- needsQuoting, appendString, appendValue

\* runes: a letter, the space, the tab, the double quote, the equals sign,
\* U+0000 and the backslash; a string is the sequence of its runes
Runes == {"a", "SP", "TAB", "DQ", "EQ", "NUL", "BS"}

\* unicode.IsSpace and unicode.IsPrint
IsSpace(r) == r \in {"SP", "TAB"}
IsPrint(r) == r \notin {"TAB", "NUL"}

\* needsQuoting: the test applied to each rune of the string
RuneNeedsQuoting_noEquals(r) == IsSpace(r) \/ r = "DQ" \/ ~IsPrint(r)
RuneNeedsQuoting(r) == IsSpace(r) \/ r = "DQ" \/ r = "EQ" \/ ~IsPrint(r)

\* needsQuoting
needsQuoting(str) ==
    \/ Len(str) = 0
    \/ \E i \in 1..Len(str) : RuneNeedsQuoting(str[i])

\* strconv.Quote: the string between double quotes, with the double quote
\* and the backslash escaped by a backslash, the tab as \t, U+0000 as \x00
QuoteRune(r) ==
    CASE r = "DQ" -> <<"BS", "DQ">>
      [] r = "BS" -> <<"BS", "BS">>
      [] r = "TAB" -> <<"BS", "t">>
      [] r = "NUL" -> <<"BS", "x", "0", "0">>
      [] OTHER -> <<r>>

RECURSIVE QuoteRunes(_)
QuoteRunes(str) ==
    IF str = <<>> THEN <<>> ELSE QuoteRune(Head(str)) \o QuoteRunes(Tail(str))

Quote(str) == <<"DQ">> \o QuoteRunes(str) \o <<"DQ">>

\* appendString: what it writes to buf
appendString(str, quote_) ==
    IF quote_ /\ needsQuoting(str) THEN Quote(str) ELSE str

\* strconv.FormatInt(n, 10) and strconv.FormatUint(n, 10)
Digit(d) == <<"0", "1", "2", "3", "4", "5", "6", "7", "8", "9">>[d + 1]

RECURSIVE FormatUint(_)
FormatUint(n) ==
    IF n < 10 THEN <<Digit(n)>> ELSE Append(FormatUint(n \div 10), Digit(n % 10))

FormatInt(n) == IF n < 0 THEN <<"-">> \o FormatUint(0 - n) ELSE FormatUint(n)

\* strconv.FormatBool
FormatBool(b) == IF b THEN <<"t", "r", "u", "e">> ELSE <<"f", "a", "l", "s", "e">>

\* strconv.FormatFloat(f, 'g', -1, 64) of 1.5, of 1e21, of a NaN and of +Inf
FormatFloat(f) ==
    CASE f = "1.5" -> <<"1", ".", "5">>
      [] f = "1e21" -> <<"1", "e", "+", "2", "1">>
      [] f = "NaN" -> <<"N", "a", "N">>
      [] OTHER -> <<"+", "I", "n", "f">>

\* time.Duration.String() of 0 and of 497ms
DurationString(d) ==
    IF d = 0 THEN <<"0", "s">> ELSE FormatUint(d) \o <<"m", "s">>

\* time.Time.String(): date, time, zone offset and zone name, separated by
\* spaces (written here with one rune for each of the four)
TimeString(t) == <<"d", "SP", "t", "SP", "o", "SP", "z">>

\* slog.Value by kind.  An Any value holds a TextMarshaler (with the text it
\* marshals to, or failing) or something else (with what fmt.Sprint gives).
KindValue(kind, x) == [kind |-> kind, x |-> x]

\* appendValue: what it writes to buf
appendValue(v, quote_) ==
    CASE v.kind = "String" -> appendString(v.x, quote_)
      [] v.kind = "Int64" -> FormatInt(v.x)
      [] v.kind = "Uint64" -> FormatUint(v.x)
      [] v.kind = "Float64" -> FormatFloat(v.x)
      [] v.kind = "Bool" -> FormatBool(v.x)
      [] v.kind = "Duration" -> appendString(DurationString(v.x), quote_)
      [] v.kind = "Time" -> appendString(TimeString(v.x), quote_)
      [] v.kind = "AnyText" -> appendString(v.x, quote_)
      [] v.kind = "AnyTextErr" -> <<>>
      [] OTHER -> appendString(v.x, quote_)

\* inputs: the strings of at most MaxStrLen runes, the group prefixes, and
\* values of every kind
Strings == UNION {[1..n -> Runes] : n \in 0..MaxStrLen}
Prefixes == {<<>>, <<"a", ".">>}
QuoteValues ==
    {KindValue(k, str) : k \in {"String", "AnyText", "AnySprint"}, str \in Strings}
    \cup {KindValue("Int64", n) : n \in {-12, 0, 7}}
    \cup {KindValue("Uint64", n) : n \in {0, 305}}
    \cup {KindValue("Float64", f) : f \in {"1.5", "1e21", "NaN", "Inf"}}
    \cup {KindValue("Bool", b) : b \in BOOLEAN}
    \cup {KindValue("Duration", d) : d \in {0, 497}}
    \cup {KindValue("Time", 0), KindValue("AnyTextErr", 0)}

QuoteInit == quote = [pc |-> "key", part |-> "none", src |-> <<>>, out |-> <<>>]

\* -------------------------------------------- pgx tracelog adapter: Logger.Log

\* tracelog.LogLevel values: the five named levels and LogLevelNone, which
\* toLevel's switch has no case for
PgxLevels == {"trace", "debug", "info", "warn", "error", "none"}

\* the levels given to Log
LogLevels == {"trace", "info", "error", "none"}

\* Logger.toLevel: the slog level, and whether the pgx level was known
toLevel(levelsMap, level) ==
    IF level \in DOMAIN levelsMap THEN <<levelsMap[level], TRUE>>
    ELSE CASE level = "trace" -> <<LevelTrace, TRUE>>
           [] level = "debug" -> <<-4, TRUE>>
           [] level = "info" -> <<0, TRUE>>
           [] level = "warn" -> <<4, TRUE>>
           [] level = "error" -> <<8, TRUE>>
           [] OTHER -> <<8, FALSE>>

\* the keys a data map may have, in the byte order sort.Strings uses
KeyOrder == <<"args", "commandTag", "err", "pid", "sql", "time">>
Keys == {KeyOrder[i] : i \in 1..Len(KeyOrder)}
KeyIndex(k) == CHOOSE i \in 1..Len(KeyOrder) : KeyOrder[i] = k
KeyLess(a, b) == KeyIndex(a) < KeyIndex(b)

\* buildAttrs: sortedKeys
sortedKeys == <<"err", "sql", "args">>

\* slices.Contains
Contains(xs, x) == \E i \in 1..Len(xs) : xs[i] = x

\* sort.Strings: the strings of xs in ascending order
SortStrings_asIs(xs) == xs
RECURSIVE SortStrings(_)
SortStrings(xs) ==
    IF xs = <<>> THEN <<>>
    ELSE LET m == CHOOSE i \in 1..Len(xs) :
                      \A j \in 1..Len(xs) : ~KeyLess(xs[j], xs[i])
         IN  <<xs[m]>> \o SortStrings(SubSeq(xs, 1, m - 1) \o SubSeq(xs, m + 1, Len(xs)))

\* buildAttrs: the loop over allKeys
RECURSIVE PresentAttrs(_, _)
PresentAttrs(allKeys, data) ==
    IF allKeys = <<>> THEN <<>>
    ELSE (IF Head(allKeys) \in DOMAIN data
          THEN <<Attr(Head(allKeys), data[Head(allKeys)])>> ELSE <<>>)
         \o PresentAttrs(Tail(allKeys), data)

\* buildAttrs, once the range over data has filled additionalKeys
buildAttrs(data, additionalKeys) ==
    PresentAttrs(sortedKeys \o SortStrings(additionalKeys), data)

\* the Logger (returned: the last Log call has returned; out: what that call
\* gave to LogAttrs; logs: the number of Log calls made): the minimum level of its slog.Logger, whether an
\* ignoreErrors matcher is set (it matches the error "ignored"), and its levelsMap
PgxLogger(minLevel, ignoreErrors, levelsMap) ==
    [minLevel |-> minLevel, ignoreErrors |-> ignoreErrors, levelsMap |-> levelsMap]

\* l.logger.Enabled(ctx, lvl)
LoggerEnabled(l, lvl) == lvl >= l.minLevel

\* data["err"] != nil && l.ignoreErrors != nil && l.ignoreErrors(err)
ErrIgnored(l, data) ==
    /\ "err" \in DOMAIN data /\ data["err"] # "nil"
    /\ l.ignoreErrors
    /\ data["err"] = "ignored"

\* inputs: the Loggers, and the data maps (any set of keys; the value of err
\* is nil, an error the matcher ignores or another error)
PgxLoggers ==
    {PgxLogger(m, i, lm) : m \in {LevelTrace, 0}, i \in BOOLEAN,
                           lm \in {<<>>, [x \in {"info"} |-> -4]}}
DataMaps ==
    UNION {[ks -> {"v"}] : ks \in SUBSET (Keys \ {"err"})}
    \cup UNION {{[k \in ks \cup {"err"} |-> IF k = "err" THEN e ELSE "v"]
                    : e \in {"nil", "ignored", "fail"}}
                : ks \in SUBSET (Keys \ {"err"})}

PgxIdle(l) ==
    [pc |-> "idle", logger |-> l, level |-> "none", data |-> <<>>, rest |-> {},
     additionalKeys |-> <<>>, out |-> <<>>, returned |-> FALSE, logs |-> 0]

PgxInitWith(ls) == \E l \in ls : pgx = PgxIdle(l)

PgxInit == PgxInitWith({PgxLogger(0, FALSE, <<>>)})

AuxInit == QuoteInit /\ PgxInit

\* l.Log(ctx, level, msg, data), up to the call of buildAttrs
Log(level, data) ==
    /\ pgx.pc = "idle"
    /\ pgx.logs < MaxLogs
    /\ LET l == pgx.logger
           lvl == toLevel(l.levelsMap, level)[1]
       IN  IF ~LoggerEnabled(l, lvl) \/ ErrIgnored(l, data)
           THEN pgx' = [PgxIdle(l) EXCEPT !.level = level, !.data = data,
                                          !.returned = TRUE, !.logs = pgx.logs + 1]
           ELSE pgx' = [PgxIdle(l) EXCEPT !.pc = "range", !.level = level,
                                          !.data = data, !.rest = DOMAIN data,
                                          !.logs = pgx.logs + 1]
    /\ UNCHANGED <<bufVars, cliVars, quote>>

\* buildAttrs: one iteration of "for k := range data"; the order in which a
\* range statement visits a map is not specified
RangeData(k) ==
    /\ pgx.pc = "range"
    /\ k \in pgx.rest
    /\ pgx' = [pgx EXCEPT !.rest = @ \ {k},
                          !.additionalKeys =
                              IF Contains(sortedKeys, k) THEN @ ELSE Append(@, k)]
    /\ UNCHANGED <<bufVars, cliVars, quote>>

\* the rest of buildAttrs, and l.logger.LogAttrs(ctx, lvl, msg, attrs...)
LogAttrs ==
    /\ pgx.pc = "range"
    /\ pgx.rest = {}
    /\ LET lvl == toLevel(pgx.logger.levelsMap, pgx.level)
           attrs == buildAttrs(pgx.data, pgx.additionalKeys)
       IN  pgx' = [pgx EXCEPT
                      !.pc = "idle",
                      !.returned = TRUE,
                      !.out = <<[level |-> lvl[1],
                                 attrs |-> IF lvl[2] THEN attrs
                                           ELSE Append(attrs,
                                                  Attr("INVALID_PGX_LOG_LEVEL", pgx.level))]>>]
    /\ UNCHANGED <<bufVars, cliVars, quote>>

PgxNext ==
    \/ \E level \in LogLevels, data \in DataMaps : Log(level, data)
    \/ \E k \in Keys : RangeData(k)
    \/ LogAttrs

PgxSpecInit ==
    BufInit /\ CLIInitWith({"nil"}) /\ QuoteInit /\ PgxInitWith(PgxLoggers)

SpecPgx == PgxSpecInit /\ [][PgxNext]_vars

\* appendAttr, default branch: appendString(buf, groupsPrefix+attr.Key, true)
AppendKey(groupsPrefix, key) ==
    /\ quote.pc = "key"
    /\ quote' = [pc |-> "value", part |-> "key", src |-> groupsPrefix \o key,
                 out |-> appendString(groupsPrefix \o key, TRUE)]
    /\ UNCHANGED <<bufVars, cliVars, pgx>>

\* appendAttr, default branch: appendValue(buf, attr.Value, true)
AppendValue(v) ==
    /\ quote.pc = "value"
    /\ quote' = [pc |-> "key", part |-> "value", src |-> v,
                 out |-> appendValue(v, TRUE)]
    /\ UNCHANGED <<bufVars, cliVars, pgx>>

QuoteNext ==
    \/ \E groupsPrefix \in Prefixes, key \in Strings : AppendKey(groupsPrefix, key)
    \/ \E v \in QuoteValues : AppendValue(v)

QuoteSpecInit == BufInit /\ CLIInitWith({"nil"}) /\ AuxInit

SpecQuote == QuoteSpecInit /\ [][QuoteNext]_vars

\* the buffering package, with the CLI handler left alone
Init == BufInit /\ CLIInitWith({"nil"}) /\ AuxInit

Next == BufNext

Spec == Init /\ [][Next]_vars

SpecScope == Init /\ [][ScopeNext]_vars

SpecNested == Init /\ [][NestedNext]_vars

\* derivations from the buffering Handlers and from the CLIHandlers, in any
\* order between the steps of one goroutine's Handle and EmitTo calls
SnapshotNext ==
    \/ \E h \in 1..Len(handlers) : WithAttrs(h, <<"a">>)
    \/ \E h \in 1..Len(handlers) : WithGroup(h, "g")
    \/ \E h \in 1..Len(clis) :
           Len(clis) < MaxSnapCLIHandlers /\ CLIWithAttrs(h, <<KV>>)
    \/ \E h \in 1..Len(clis) :
           Len(clis) < MaxSnapCLIHandlers /\ CLIWithGroup(h, "g")
    \/ \E h \in 1..Len(handlers) :
           nextId <= MaxSnapRecords /\ HandleCall(1, h, 0)
    \/ HandleLock(1)
    \/ HandleAppend(1)
    \/ HandleReturn(1)
    \/ \E d \in Downstreams : emits < MaxSnapEmits /\ EmitToCall(1, d)
    \/ EmitLock(1)
    \/ EmitForward(1, TRUE)
    \/ EmitClear(1)
    \/ EmitReturn(1)

SpecSnapshot == Init /\ [][SnapshotNext]_vars

\* concurrent Handle calls on the CLIHandlers derived from one root, writing
\* to a sink that takes every piece
CLINext ==
    \/ \E h \in 1..Len(clis), as \in CLIBatches \ {<<>>} : CLIWithAttrs(h, as)
    \/ \E p \in Procs, h \in 1..Len(clis), as \in ConcRecordAttrs :
           lines < MaxLines /\ CLIHandleCall(p, h, 0, as)
    \/ \E p \in Procs : CLILock(p)
    \/ \E p \in Procs : CLIFormat(p)
    \/ \E p \in Procs : CLIWrite(p, TRUE)
    \/ \E p \in Procs : CLIWritten(p)
    \/ \E p \in Procs : CLIReturn(p)
    \/ \E p \in Procs : CLIDone(p)

CLIInit == BufInit /\ CLIInitWith({"nil"}) /\ AuxInit

SpecCLI == CLIInit /\ [][CLINext]_vars

\* one goroutine writing to a sink that may fail at any piece of a line
SinkNext ==
    \/ \E h \in 1..Len(clis), as \in CLIBatches \ {<<>>} : CLIWithAttrs(h, as)
    \/ \E h \in 1..Len(clis), as \in ConcRecordAttrs :
           lines < MaxLines /\ CLIHandleCall(1, h, 0, as)
    \/ CLILock(1)
    \/ CLIFormat(1)
    \/ \E ok \in BOOLEAN : CLIWrite(1, ok)
    \/ CLIWritten(1)
    \/ CLIReturn(1)
    \/ CLIDone(1)

SpecSink == CLIInit /\ [][SinkNext]_vars

\* one goroutine, every ReplaceAttr function and every kind of record, writing
\* to a sink that takes every piece
RenderNext ==
    \/ \E h \in 1..Len(clis), as \in CLIBatches : CLIWithAttrs(h, as)
    \/ \E h \in 1..Len(clis), name \in GroupNames : CLIWithGroup(h, name)
    \/ \E h \in 1..Len(clis), as \in RenderRecordAttrs :
           lines < MaxRenderLines /\ CLIHandleCall(1, h, 0, as)
    \/ CLILock(1)
    \/ CLIFormat(1)
    \/ CLIWrite(1, TRUE)
    \/ CLIWritten(1)
    \/ CLIReturn(1)
    \/ CLIDone(1)

RenderInit == BufInit /\ CLIInitWith(ReplaceFns) /\ AuxInit

SpecRender == RenderInit /\ [][RenderNext]_vars

\* the same, with the ReplaceAttr functions that return an empty key
EmptyKeyInit == BufInit /\ CLIInitWith(EmptyKeyFns) /\ AuxInit

SpecEmptyKey == EmptyKeyInit /\ [][RenderNext]_vars

\* one goroutine, every configuration of the level maps and records of every
\* level, with and without attributes
LevelNext ==
    \/ \E h \in 1..Len(clis) : CLIWithAttrs(h, <<KV>>)
    \/ \E h \in 1..Len(clis), l \in CLILevels, as \in CLIBatches :
           lines < MaxRenderLines /\ CLIHandleCall(1, h, l, as)
    \/ CLILock(1)
    \/ CLIFormat(1)
    \/ CLIWrite(1, TRUE)
    \/ CLIWritten(1)
    \/ CLIReturn(1)
    \/ CLIDone(1)

LevelInit == BufInit /\ CLIInitOpts(LevelOptions) /\ AuxInit

SpecLevel == LevelInit /\ [][LevelNext]_vars

\* ------------------------------------------------------------ claims: buffering

\* the identities of the records of a sequence of bufferedRecords
Ids(brs) == {brs[i].record.id : i \in 1..Len(brs)}

\* the records of a sequence, in order
RecordsOf(xs) == [i \in 1..Len(xs) |-> xs[i].record]

\* the goroutines inside an EmitTo call with a non-nil handler
Emitting(p) == pc[p] \in {"e_loop", "e_ret"}

\* how many records of its range goroutine p's EmitTo has dealt with
Processed(p) ==
    IF pc[p] = "e_loop" THEN idx[p] - 1
    ELSE IF err[p] THEN idx[p] ELSE Len(rng[p])

\* the buffered records, among the first k of p's range, whose level the
\* downstream given to p's EmitTo enables
EnabledPrefix(p, k) ==
    SelectSeq(SubSeq(rng[p], 1, k), LAMBDA br : br.level >= arg[p].level)

\* C1: at every point of an EmitTo, the records given to the downstream are
\* exactly the records dealt with so far whose level is at or above the
\* downstream's threshold, in the order Handle appended them; an EmitTo that
\* returns nil has dealt with every buffered record; only a downstream
\* failure makes EmitTo fail; and Handle appends its record whatever its level.
C1_ReplayInOrderFiltered ==
    /\ \A p \in Procs : Emitting(p) =>
          /\ RecordsOf(sent[p]) = RecordsOf(EnabledPrefix(p, Processed(p)))
          /\ (pc[p] # "e_loop" /\ ~err[p]) => idx[p] = Len(rng[p]) + 1
          /\ err[p] => Len(sent[p]) > 0 /\ ~sent[p][Len(sent[p])].ok
    /\ \A p \in Procs : pc[p] = "h_unlock" =>
          /\ Len(records) > 0
          /\ records[Len(records)].record = arg[p].r
    /\ \A l \in Levels : HandlerEnabled(l)

\* C1 witness: an EmitTo that returned nil after skipping one of two buffered
\* records and forwarding the other
C1_Witness ==
    \E p \in Procs :
        /\ pc[p] = "e_ret" /\ ~err[p]
        /\ Len(rng[p]) = 2 /\ Len(sent[p]) = 1

\* the attributes of a scope, each with the groups open when it was added
RECURSIVE Qualified(_, _)
Qualified(goas, path) ==
    IF goas = <<>> THEN <<>>
    ELSE LET goa == Head(goas)
         IN  IF goa.group # ""
             THEN Qualified(Tail(goas), Append(path, goa.group))
             ELSE [i \in 1..Len(goa.attrs) |-> <<path, goa.attrs[i]>>]
                  \o Qualified(Tail(goas), path)

\* C2: every record is given to a downstream handler built by replaying the
\* record's captured scope in the order it was built, so that every attribute
\* is inside exactly the groups that were open when it was added.
C2_ScopeReplayedInOrder ==
    \A p \in Procs : \A i \in 1..Len(sent[p]) :
        Qualified(sent[p][i].goas, <<>>) = Qualified(sent[p][i].scope, <<>>)

\* C3: a downstream failure is the last thing an EmitTo forwards: the call
\* returns the error, the buffer is what it was when the replay began, the
\* records before the failing one stay forwarded, and every record forwarded
\* but not yet removed by a successful EmitTo is still buffered, so that a
\* retry replays it again from the first record.
C3_FailureStopsReplay ==
    /\ \A p \in Procs : \A i \in 1..Len(sent[p]) :
          ~sent[p][i].ok => /\ i = Len(sent[p])
                            /\ err[p]
                            /\ pc[p] = "e_ret"
    /\ \A p \in Procs : (pc[p] = "e_ret" /\ err[p]) =>
          /\ records = rng[p]
          /\ idx[p] \in 1..Len(rng[p])
          /\ RecordsOf(sent[p]) =
                 RecordsOf(EnabledPrefix(p, idx[p] - 1)) \o <<rng[p][idx[p]].record>>
    /\ \A p \in Procs : (pc[p] = "e_loop" /\ idx[p] = 1) =>
          sent[p] = <<>> /\ rng[p] = records
    /\ \A id \in DOMAIN count :
          (count[id] > 0 /\ id \notin done) => id \in Ids(records)

\* C3 witness: a retried EmitTo forwards again a record that a failed EmitTo
\* had already forwarded
C3_Witness ==
    \E p \in Procs :
        /\ pc[p] = "e_loop" /\ failed
        /\ \E i \in 1..Len(sent[p]) : count[sent[p][i].record.id] = 2

\* C4: when an EmitTo with a non-nil handler returns nil the buffer is empty,
\* an EmitTo that finds the buffer empty forwards nothing, and as long as no
\* EmitTo has failed no record has been forwarded twice.
C4_ClearedOnSuccess ==
    /\ \A p \in Procs : (pc[p] = "e_ret" /\ ~err[p]) => records = <<>>
    /\ \A p \in Procs : (Emitting(p) /\ pc[p] # "e_loop" /\ rng[p] = <<>>)
                            => sent[p] = <<>>
    /\ ~failed => \A id \in DOMAIN count : count[id] <= 1
    /\ \A id \in done : id \notin Ids(records)

\* C4 witness: a second EmitTo returns nil having found nothing to replay,
\* after a first one forwarded a record
C4_Witness ==
    \E p \in Procs :
        /\ pc[p] = "e_ret" /\ ~err[p] /\ ~failed
        /\ rng[p] = <<>>
        /\ emits = 2
        /\ \E id \in done : count[id] = 1

\* the program points at which a goroutine holds the Emitter's mutex
Critical == {"h_append", "h_unlock", "e_loop", "e_ret"}

\* the records Handle has appended so far
Appended ==
    (1..(nextId - 1)) \
        {arg[p].r.id : p \in {q \in Procs : pc[q] \in {"h_lock", "h_append"}}}

\* Handle and EmitTo exclude each other on the buffer
MutualExclusion ==
    /\ \A p \in Procs : (pc[p] \in Critical) <=> (mu = p)
    /\ \A p \in Procs : pc[p] = "e_loop" => records = rng[p]

\* C5 as stated: Handle and EmitTo exclude each other, and when an EmitTo
\* returns, every appended record was either replayed by it or is in the
\* buffer, never neither and never both.
C5_ReplayedXorBuffered ==
    /\ MutualExclusion
    /\ \A p \in Procs : pc[p] = "e_ret" =>
          \A id \in Appended \ (done \ Ids(rng[p])) :
              LET replayed == \E i \in 1..Processed(p) : rng[p][i].record.id = id
              IN  replayed # (id \in Ids(records))

\* C5 as amended: Handle and EmitTo exclude each other; no appended record is
\* ever lost; when an EmitTo returns nil every record it replayed (forwarded
\* or skipped) has left the buffer and no other record has; when it returns
\* an error every record, forwarded or not, is still in the buffer.
C5_MutexNoLoss ==
    /\ MutualExclusion
    /\ Appended = Ids(records) \cup done
    /\ Ids(records) \cap done = {}
    /\ \A p \in Procs : (pc[p] = "e_ret" /\ ~err[p]) =>
          /\ Ids(rng[p]) \subseteq done
          /\ records = <<>>
    /\ \A p \in Procs : (pc[p] = "e_ret" /\ err[p]) => records = rng[p]

\* C5 witness: a Handle waits for the mutex while a replay is under way
C5_Witness ==
    \E p, q \in Procs :
        /\ pc[p] = "e_loop" /\ idx[p] > 1
        /\ pc[q] = "h_lock"

\* the goroutines waiting in sync.Mutex.Lock for the Emitter's mutex
Waiting(p) == pc[p] \in {"h_lock", "e_lock"}

\* C17: no caller of Handle or EmitTo is left blocked forever: a goroutine
\* that waits for the Emitter's mutex never waits for itself, whatever handler
\* EmitTo was given (a Handler of the same Emitter included), so that the
\* holder runs on to its deferred Unlock and EmitTo returns.
C17_NoCallerBlockedForever ==
    \A p \in Procs : Waiting(p) => mu # p

\* the attrs and groups of a buffering Handler or of a buffered record
AttrsGroups(x) == [attrs |-> x.attrs, groups |-> x.groups]

\* no step changes a handler that exists, and the buffer only grows at its
\* end or is emptied
ScopesKept ==
    /\ Len(handlers') >= Len(handlers)
    /\ \A h \in 1..Len(handlers) : handlers'[h] = handlers[h]
    /\ Len(clis') >= Len(clis)
    /\ \A h \in 1..Len(clis) : clis'[h] = clis[h]
    /\ \/ records' = <<>>
       \/ /\ Len(records') >= Len(records)
          /\ \A i \in 1..Len(records) : records'[i] = records[i]

\* every buffered record has the attrs and groups its handler had when Handle
\* was called, and every record given to a downstream was given to the
\* handler EmitTo builds from those
SnapshotReplayed ==
    /\ \A i \in 1..Len(records) : AttrsGroups(records[i]) = records[i].record.at
    /\ \A p \in Procs : \A i \in 1..Len(sent[p]) :
          sent[p][i].goas =
              [k \in 1..Len(sent[p][i].record.at.groups) |->
                  GroupEntry(sent[p][i].record.at.groups[k])]
              \o (IF Len(sent[p][i].record.at.attrs) > 0
                  THEN <<AttrsEntry(sent[p][i].record.at.attrs)>> ELSE <<>>)

C8_NoOpIdentity ==
    /\ lastDerive.op # "none" => (lastDerive.same <=> lastDerive.empty)
    /\ cliLastDerive.op # "none" => (cliLastDerive.same <=> cliLastDerive.empty)

\* ---------------------------------------------------------- claims: CLIHandler

\* the goroutines whose Handle has built its line
Formatted(p) == cpc[p] \in {"c_write", "c_ret", "c_done"}

\* C6: the sink receives the lines of the handlers derived from one root one
\* whole line at a time: the pieces of one record's line are never separated
\* by a piece of another's; every derived handler has the root's mutex, and a
\* goroutine holds it from before formatting until after the write.
C6_WholeLines ==
    /\ \A i, k \in 1..Len(sink) :
          (i < k /\ sink[i].line = sink[k].line) =>
              \A j \in i..k : sink[j].line = sink[i].line
    /\ \A h \in 1..Len(clis) : clis[h].mu = clis[1].mu
    /\ \A p \in Procs :
          (cpc[p] \in {"c_format", "c_write", "c_ret"}) <=> (cmu[clis[1].mu] = p)

\* C6 witness: one goroutine is in the middle of writing its line while
\* another, on a different handler of the same root, waits for the mutex
C6_Witness ==
    \E p, q \in Procs :
        /\ cpc[p] = "c_write" /\ cpos[p] >= 1 /\ cpos[p] < Len(cbuf[p])
        /\ cpc[q] = "c_lock"
        /\ carg[q].h # carg[p].h

\* C7: Handle returns the sink's error exactly when the write to the sink
\* failed, and nil otherwise.
C7_WriteErrorReturned ==
    \A p \in Procs : cpc[p] = "c_done" => (cret[p] = "err" <=> werr[p])

\* the leaf attributes of an attribute, each with the group path it is under
RECURSIVE Leaves(_, _)
Leaves(attr, path) ==
    IF attr.val.kind = "Group"
    THEN LET RECURSIVE kids(_)
             kids(as) == IF as = <<>> THEN <<>>
                         ELSE Leaves(Head(as), Append(path, attr.key))
                              \o kids(Tail(as))
         IN  kids(attr.val.attrs)
    ELSE <<[path |-> path, attr |-> attr]>>

RECURSIVE LeavesOfAll(_)
LeavesOfAll(qualified) ==
    IF qualified = <<>> THEN <<>>
    ELSE Leaves(Head(qualified)[2], Head(qualified)[1])
         \o LeavesOfAll(Tail(qualified))

\* the attributes a line for record r on handler h is about: those of each
\* WithAttrs call in call order with the groups open at that call, then the
\* record's own with the groups open at the end
WantedLeaves(h, r) ==
    LeavesOfAll(clis[h].want
                \o [i \in 1..Len(r.attrs) |-> <<clis[h].open, r.attrs[i]>>])

\* the key=value pieces of a line, as the attributes they render
Rendered(line) ==
    LET attrs == SelectSeq(line, LAMBDA piece : piece.t = "attr")
    IN  [i \in 1..Len(attrs) |-> <<attrs[i].key, attrs[i].val>>]

FullKeys(leaves) ==
    [i \in 1..Len(leaves) |->
        <<Append(leaves[i].path, leaves[i].attr.key), leaves[i].attr.val>>]

RECURSIVE IsSubSeq(_, _)
IsSubSeq(xs, ys) ==
    IF xs = <<>> THEN TRUE
    ELSE IF ys = <<>> THEN FALSE
    ELSE IF Head(xs) = Head(ys) THEN IsSubSeq(Tail(xs), Tail(ys))
    ELSE IsSubSeq(xs, Tail(ys))

\* C9: the key=value pieces of a line are the attributes of the WithAttrs
\* calls in call order followed by the record's own, each key prefixed by
\* exactly the groups that were open when the attribute was added (and, for a
\* child of a group-valued attribute, the keys of the groups it is in);
\* ReplaceAttr may drop attributes but never reorders or re-prefixes them.
C9_AttrOrderAndPrefix ==
    \A p \in Procs : Formatted(p) =>
        LET h == carg[p].h
            want == FullKeys(WantedLeaves(h, carg[p].r))
        IN  /\ clis[h].replaceAttr = "nil" => Rendered(cbuf[p]) = want
            /\ IsSubSeq(Rendered(cbuf[p]), want)

\* C9 witness: a line with an attribute added before a group was opened, and
\* an attribute of the record inside that group
C9_Witness ==
    \E p \in Procs :
        /\ Formatted(p)
        /\ Rendered(cbuf[p]) =
               << <<(<<"k">>), StringValue("v")>>, <<(<<"g", "k">>), StringValue("v")>> >>
        /\ clis[carg[p].h].goas = <<AttrsEntry(<<KV>>), GroupEntry("g")>>

\* C10: with a ReplaceAttr function configured, it is called for the message
\* and for every attribute of the line, children of group-valued attributes
\* included, and whatever it answers with an empty key leaves nothing in the
\* line: an empty message, and no key=value piece for the attribute.
C10_ReplaceAttrEverywhere ==
    \A p \in Procs : (Formatted(p) /\ clis[carg[p].h].replaceAttr # "nil") =>
        LET h == carg[p].h
            r == carg[p].r
            fn == clis[h].replaceAttr
            want == WantedLeaves(h, r)
            msgAttr == Attr(MessageKey, StringValue(r.msg))
            called(groups, a) == \E i \in 1..Len(calls) : calls[i] = <<groups, a>>
        IN  /\ called(<<>>, msgAttr)
            /\ \A i \in 1..Len(want) : called(want[i].path, want[i].attr)
            /\ ReplaceAttr(fn, <<>>, msgAttr).key = "" => cbuf[p][2].s = ""
            /\ \A i \in 1..Len(want) :
                  ReplaceAttr(fn, want[i].path, want[i].attr).key = "" =>
                      \A j \in 1..Len(cbuf[p]) :
                          ~(/\ cbuf[p][j].t = "attr"
                            /\ cbuf[p][j].key = Append(want[i].path, want[i].attr.key))

\* the group names of a line: every segment of a rendered key but the last
GroupSegments(line) ==
    UNION {{line[j].key[i] : i \in 1..(Len(line[j].key) - 1)} :
             j \in {k \in 1..Len(line) : line[k].t = "attr"}}

\* the group names the leaf attributes are under
LeafGroups(leaves) ==
    UNION {{leaves[i].path[k] : k \in 1..Len(leaves[i].path)} : i \in 1..Len(leaves)}

\* C11: a group with no rendered attribute in it leaves nothing in the line.
\* Between the message and the newline a line holds key=value pieces only,
\* each with a value that is not a group and at most one for every leaf
\* attribute of the handler and the record; a line with no leaf attribute is
\* the glyph, the message and the newline; and a group name is in the line
\* only as a prefix of a key=value piece, and only when a leaf attribute is
\* under that group, so that the groups at the end of the handler's scope
\* leave nothing when the record has no attributes.
C11_EmptyGroupsRenderNothing ==
    \A p \in Procs : Formatted(p) =>
        LET h == carg[p].h
            r == carg[p].r
            line == cbuf[p]
            leaves == WantedLeaves(h, r)
        IN  /\ Len(line) >= 3
            /\ line[1].t = "prefix" /\ line[2].t = "msg" /\ line[Len(line)].t = "nl"
            /\ \A j \in 3..(Len(line) - 1) :
                  /\ line[j].t = "attr"
                  /\ line[j].val.kind # "Group"
                  /\ Len(line[j].key) >= 1
            /\ Len(line) - 3 <= Len(leaves)
            /\ leaves = <<>> => Len(line) = 3
            /\ GroupSegments(line) \subseteq LeafGroups(leaves)

\* C11 witness: a handler whose scope ends in a group, a record whose only
\* attribute is a group holding an empty group, and a line without any
\* key=value piece
C11_Witness ==
    \E p \in Procs :
        /\ Formatted(p)
        /\ Len(clis[carg[p].h].goas) > 0
        /\ clis[carg[p].h].goas[Len(clis[carg[p].h].goas)] = GroupEntry("g")
        /\ carg[p].r.attrs = <<Attr("g", GroupValue(<<Attr("i", GroupValue(<<>>))>>))>>
        /\ Len(cbuf[p]) = 3

\* C12: Handle never panics, whatever the level of the record; for a level
\* that is not a key of the glyph map the line has an empty glyph, for a
\* level that is not a key of the color map the glyph and the keys are
\* written without a color, and the line is written to the sink.
C12_UnmappedLevelCompletes ==
    \A p \in Procs :
        /\ cpc[p] # "c_panic"
        /\ cpc[p] = "c_done" =>
              LET h == carg[p].h
                  r == carg[p].r
              IN  /\ r.level \notin DOMAIN clis[h].levelPrefixes => cbuf[p][1].s = ""
                  /\ r.level \notin DOMAIN clis[h].levelColors =>
                        \A j \in 1..Len(cbuf[p]) : cbuf[p][j].color \in {NoColor, NilColor}
                  /\ \E j \in 1..Len(sink) :
                        sink[j].line = r.id /\ sink[j].piece.t = "nl"

\* C13: the glyph of a line is the one the handler's glyph map (the caller's,
\* or the built-in one when the caller set none) has for the record's level,
\* and the glyph and every key are written through the color the handler's
\* color map (the caller's, or the built-in one when the caller set none) has
\* for the record's level.
C13_ConfiguredGlyphAndColor ==
    \A p \in Procs : Formatted(p) =>
        LET h == carg[p].h
            r == carg[p].r
            glyph == MapIndex(clis[h].levelPrefixes, r.level, "")
            colour == MapIndex(clis[h].levelColors, r.level, NilColor)
        IN  /\ cbuf[p][1].t = "prefix"
            /\ cbuf[p][1].s = glyph
            /\ \A j \in 1..Len(cbuf[p]) :
                  cbuf[p][j].t \in {"prefix", "attr"} => cbuf[p][j].color = colour

\* the attributes Handle gives to ReplaceAttr for a line, each with the groups
\* open where it was added: those of the WithAttrs calls, then the record's
Given(h, r) ==
    clis[h].want \o [i \in 1..Len(r.attrs) |-> <<clis[h].open, r.attrs[i]>>]

\* what ReplaceAttr returns for each of them
Returned(h, r) ==
    [i \in 1..Len(Given(h, r)) |->
        <<Given(h, r)[i][1],
          ReplaceAttr(clis[h].replaceAttr, Given(h, r)[i][1], Given(h, r)[i][2])>>]

RECURSIVE UnquoteRunes(_)
UnquoteRunes(str) ==
    IF str = <<>> THEN <<>>
    ELSE IF Head(str) # "BS" THEN <<Head(str)>> \o UnquoteRunes(Tail(str))
    ELSE IF str[2] = "t" THEN <<"TAB">> \o UnquoteRunes(SubSeq(str, 3, Len(str)))
    ELSE IF str[2] = "x" THEN <<"NUL">> \o UnquoteRunes(SubSeq(str, 5, Len(str)))
    ELSE <<str[2]>> \o UnquoteRunes(SubSeq(str, 3, Len(str)))

\* a text is written quoted: between two double quotes, and unquoting what
\* is between them gives the text back
WrittenQuoted(text, out) ==
    /\ Len(out) >= 2
    /\ out[1] = "DQ" /\ out[Len(out)] = "DQ"
    /\ UnquoteRunes(SubSeq(out, 2, Len(out) - 1)) = text

\* a text is empty or has a whitespace rune, a double quote, an equals sign
\* or a non-printable rune
MustBeQuoted(text) ==
    \/ text = <<>>
    \/ \E i \in 1..Len(text) : text[i] \in {"SP", "TAB", "DQ", "EQ", "NUL"}

\* the text of a string-like value
StringLike == {"String", "Duration", "Time", "AnyText", "AnySprint"}
TextOf(v) ==
    CASE v.kind = "Duration" -> DurationString(v.x)
      [] v.kind = "Time" -> TimeString(v.x)
      [] OTHER -> v.x

\* C14: a key (with its group prefix) and the text of a string-like value are
\* written quoted when they are empty or hold a whitespace rune, a double
\* quote, an equals sign or a non-printable rune, and verbatim otherwise;
\* integers, floats and bools are written without quotes.
C14_QuotedIffNeeded ==
    /\ quote.part = "key" =>
          IF MustBeQuoted(quote.src) THEN WrittenQuoted(quote.src, quote.out)
          ELSE quote.out = quote.src
    /\ (quote.part = "value" /\ quote.src.kind \in StringLike) =>
          IF MustBeQuoted(TextOf(quote.src))
          THEN WrittenQuoted(TextOf(quote.src), quote.out)
          ELSE quote.out = TextOf(quote.src)
    /\ (quote.part = "value"
          /\ quote.src.kind \in {"Int64", "Uint64", "Float64", "Bool"}) =>
          /\ Len(quote.out) > 0
          /\ \A i \in 1..Len(quote.out) : quote.out[i] # "DQ"

\* C14 witness: a key under a group prefix whose only offending rune is an
\* equals sign has been written between quotes
C14_Witness ==
    /\ quote.part = "key"
    /\ quote.src = <<"a", ".", "a", "EQ">>
    /\ quote.out = <<"DQ", "a", ".", "a", "EQ", "DQ">>

\* ------------------------------------------------------------ claims: adapter

\* the keys of a sequence of attributes
KeysOf(attrs) == [i \in 1..Len(attrs) |-> attrs[i].key]

\* C15: when Log has returned, what it gave to the logger is, for an enabled
\* level and an error that is not ignored, one record whose attributes are
\* the entries of data, each exactly once with its value, "err", "sql" and
\* "args" first in that order and the other keys after them in ascending
\* order (and then the marker of an unknown pgx level); and nothing when the
\* level is disabled or the error is ignored.
C15_DeterministicAttrOrder ==
    pgx.returned =>
        LET l == pgx.logger
            data == pgx.data
            lvl == IF pgx.level \in DOMAIN l.levelsMap THEN l.levelsMap[pgx.level]
                   ELSE CASE pgx.level = "trace" -> -8 [] pgx.level = "debug" -> -4
                          [] pgx.level = "info" -> 0 [] pgx.level = "warn" -> 4
                          [] OTHER -> 8
            silent == \/ lvl < l.minLevel
                      \/ /\ l.ignoreErrors /\ "err" \in DOMAIN data
                         /\ data["err"] = "ignored"
        IN  IF silent THEN pgx.out = <<>>
            ELSE /\ Len(pgx.out) = 1
                 /\ pgx.out[1].level = lvl
                 /\ LET all == pgx.out[1].attrs
                        n == Cardinality(DOMAIN data)
                        keys == KeysOf(SubSeq(all, 1, n))
                        first == Cardinality(DOMAIN data \cap {"err", "sql", "args"})
                    IN  /\ Len(all) >= n
                        /\ {keys[i] : i \in 1..n} = DOMAIN data
                        /\ \A i \in 1..n : all[i].val = data[all[i].key]
                        /\ \A i, j \in 1..n : i < j =>
                              /\ keys[i] # keys[j]
                              /\ keys[j] = "err" => FALSE
                              /\ keys[j] = "sql" => keys[i] = "err"
                              /\ keys[j] = "args" => keys[i] \in {"err", "sql"}
                              /\ (i > first) => KeyLess(keys[i], keys[j])
                        /\ \A i \in 1..first : keys[i] \in {"err", "sql", "args"}
                        /\ Len(all) \in {n, n + 1}
                        /\ Len(all) = n + 1 =>
                              /\ all[n + 1].key = "INVALID_PGX_LOG_LEVEL"
                              /\ pgx.level = "none"

\* C15 witness: a record was emitted whose range over data met "time" before
\* "commandTag", with "args" and "err" present and "sql" absent
C15_Witness ==
    /\ pgx.returned
    /\ Len(pgx.out) = 1
    /\ pgx.additionalKeys = <<"time", "pid", "commandTag">>
    /\ KeysOf(pgx.out[1].attrs) = <<"err", "args", "commandTag", "pid", "time">>

====
